---- MODULE Spec2Model ----
(***************************************************************************)
(* Y-TRUST Streamlit front ends.                                           *)
(*                                                                         *)
(* app3.py: semantic recipe retrieval.  Every script run loads the recipe  *)
(* catalog (st.cache_data) and the sentence-embedding model                *)
(* (st.cache_resource), encodes the catalog, and, when the text input is   *)
(* not empty, resolves the query to the best catalog entry and posts it    *)
(* to the prediction API.                                                  *)
(* app2.py: the recipe is picked from a select box fed by the API.         *)
(*                                                                         *)
(* Text is a sequence of one-character strings.  An optional value is a    *)
(* sequence of length at most one: <<>> is None/NaN, <<x>> is x.           *)
(***************************************************************************)
EXTENDS Integers, Sequences, FiniteSets, TLC

\* ------------------------------------------------------------- bounds
\* Largest number of data rows of data/recipes.csv.
MaxRows == 3
\* Largest number of script runs started in one process.
MaxRuns == 3

\* Browser sessions; each runs the script in a thread of its own.
Sessions == {1, 2}

None == <<>>
Some(x) == <<x>>

\* ------------------------------------------------------------- text
Whitespace == {" "}

\* str.lower on one character.
LowerChar(c) ==
  CASE c = "A" -> "a"
    [] c = "B" -> "b"
    [] c = "N" -> "n"
    [] OTHER -> c

\* str.lower: every character lowered, length kept.
Lower(t) == [i \in 1..Len(t) |-> LowerChar(t[i])]

\* str.lstrip / str.rstrip: drop whitespace from one end until a
\* non-whitespace character is met.
RECURSIVE LStrip(_)
LStrip(t) ==
  IF t = <<>> THEN <<>>
  ELSE IF Head(t) \in Whitespace THEN LStrip(Tail(t)) ELSE t

RECURSIVE RStrip(_)
RStrip(t) ==
  IF t = <<>> THEN <<>>
  ELSE IF t[Len(t)] \in Whitespace THEN RStrip(SubSeq(t, 1, Len(t) - 1)) ELSE t

\* str.strip
Strip(t) == RStrip(LStrip(t))

\* A payload that is lowered but not stripped.
PayloadNotStripped(name) == Lower(name)

\* The recipe_name of the request body: name.strip().lower()
Payload(name) == Lower(Strip(name))

\* An if that takes every str for true.
TruthyAlways(t) == TRUE

\* Truth value of a str in an if: the empty string is false.
Truthy(t) == t # <<>>

\* ------------------------------------------------------------- catalog
\* The name fields a row of data/recipes.csv may hold: empty, the marker
\* NA, a name with leading whitespace and an upper-case letter, a plain name.
RawFields == { <<>>, <<"N", "A">>, <<" ", "A">>, <<"a">> }

\* The fields pandas.read_csv reads as missing (keep_default_na): the empty
\* field and the default markers, of which these are spelled with the
\* characters used here.
NAValues == { <<>>, <<"N", "A">>, <<"N", "a", "N">>, <<"n", "a", "n">> }

CsvFiles == UNION { [1..n -> RawFields] : n \in 0..MaxRows }

\* pd.read_csv on the name column: a missing field becomes NaN.
ReadCsv(rows) ==
  [i \in 1..Len(rows) |-> IF rows[i] \in NAValues THEN None ELSE Some(rows[i])]

\* dropna that also drops the row after each dropped one.
RECURSIVE DropNaAndNext(_)
DropNaAndNext(df) ==
  IF df = <<>> THEN <<>>
  ELSE IF Head(df) = None
       THEN (IF Len(df) = 1 THEN <<>> ELSE DropNaAndNext(Tail(Tail(df))))
       ELSE <<Head(df)>> \o DropNaAndNext(Tail(df))

\* df.dropna(subset=["name"]): the rows whose name is not NaN, in order.
RECURSIVE DropNa(_)
DropNa(df) ==
  IF df = <<>> THEN <<>>
  ELSE IF Head(df) = None THEN DropNa(Tail(df))
       ELSE <<Head(df)>> \o DropNa(Tail(df))

\* load_recipes(): the data frame the cached function returns.
LoadRecipesBody(rows) == DropNa(ReadCsv(rows))

\* df_recipes["name"].tolist()
ToList(df) == [i \in 1..Len(df) |-> df[i][1]]

\* ------------------------------------------------------------- encoder
\* The texts user_query may hold when it is not empty.
Queries == { <<"b">> }

\* The texts the encoder is defined on: the names a catalog may hold, the
\* queries, and the empty text (encoding it is legal).
Texts == (RawFields \ NAValues) \cup Queries \cup {<<>>}

\* Embedding vectors: two unit vectors and the zero vector.
Vecs == { <<1, 0>>, <<-1, 0>>, <<0, 0>> }

\* The pretrained model is some fixed function from text to vector.
Encoders == [Texts -> Vecs]

\* model.encode(list): one vector per text, dropping the last text.
EncodeManyDropLast(w, names) ==
  [i \in 1..(IF Len(names) = 0 THEN 0 ELSE Len(names) - 1) |-> w[names[i]]]

\* model.encode(list, convert_to_tensor=True): one vector per text, in order.
EncodeMany(w, names) == [i \in 1..Len(names) |-> w[names[i]]]

Dot(a, b) == a[1] * b[1] + a[2] * b[2]

\* Euclidean norm of a vector whose norm is an integer.
Norm(v) == CHOOSE n \in 0..2 : n * n = Dot(v, v)

\* torch.nn.functional.normalize: v / max(|v|, eps); the zero vector stays zero.
Normalize(v) ==
  IF Norm(v) = 0 THEN v ELSE [i \in 1..Len(v) |-> v[i] \div Norm(v)]

\* util.pytorch_cos_sim(query_embedding, recipe_embeddings)[0]
CosSim(q, index) ==
  [i \in 1..Len(index) |-> Dot(Normalize(q), Normalize(index[i]))]

\* A scan that keeps the last of several equal maxima.
RECURSIVE ArgMaxLastFrom(_, _, _)
ArgMaxLastFrom(scores, i, best) ==
  IF i > Len(scores) THEN best
  ELSE IF scores[i] >= scores[best] THEN ArgMaxLastFrom(scores, i + 1, i)
       ELSE ArgMaxLastFrom(scores, i + 1, best)

ArgMaxLast(scores) == ArgMaxLastFrom(scores, 2, 1)

\* scores.argmax(): the position of the first maximal value (1-based here).
RECURSIVE ArgMaxFrom(_, _, _)
ArgMaxFrom(scores, i, best) ==
  IF i > Len(scores) THEN best
  ELSE IF scores[i] > scores[best] THEN ArgMaxFrom(scores, i + 1, i)
       ELSE ArgMaxFrom(scores, i + 1, best)

ArgMax(scores) == ArgMaxFrom(scores, 2, 1)

\* ------------------------------------------------------------- HTTP
\* What requests.post(.../ingredients/predict) may bring back: exc is the
\* text of a raised exception ("" when a response arrived), matches the
\* number of entries under "matches" (None when the JSON lacks the key).
Responses ==
  { [exc |-> "", status |-> 200, text |-> "", matches |-> Some(1)],
    [exc |-> "", status |-> 200, text |-> "", matches |-> Some(0)],
    [exc |-> "", status |-> 200, text |-> "", matches |-> None],
    [exc |-> "", status |-> 500, text |-> "boom", matches |-> None],
    [exc |-> "", status |-> 404, text |-> "unknown recipe", matches |-> None],
    [exc |-> "ConnectionError", status |-> 0, text |-> "", matches |-> None] }

\* The lists GET .../data/recipes may return under "recipes".
ApiNameLists ==
  { <<>>, << <<" ", "A">>, <<"a">> >>, << <<>>, <<"a">> >> }

\* What requests.get(.../data/recipes) may bring back.
GetResponses ==
  { [exc |-> "", status |-> 200, recipes |-> l] : l \in ApiNameLists }
  \cup { [exc |-> "", status |-> 500, recipes |-> <<>>],
         [exc |-> "ConnectionError", status |-> 0, recipes |-> <<>>] }

Msg(k, st, tx) == [kind |-> k, status |-> st, text |-> tx]

\* The message the try block around requests.post ends with.
Display(r) ==
  IF r.exc # "" THEN Msg("exception", 0, r.exc)
  ELSE IF r.status = 200
       THEN (IF r.matches = None THEN Msg("exception", 0, "KeyError")
             ELSE IF r.matches[1] = 0 THEN Msg("warning", 200, "")
             ELSE Msg("results", 200, ""))
       ELSE Msg("api_error", r.status, r.text)

\* ------------------------------------------------------------- state
\* The functions behind st.cache_data and st.cache_resource.
Fns == {"load_recipes", "load_model"}

VARIABLES
  app,               \* which script the process serves: "app2" or "app3"
  csv,               \* the name column of data/recipes.csv
  weights,           \* the pretrained encoder, text -> vector
  sessions,          \* the browser sessions connected to the process
  cache,             \* per cached function: None or Some(value)
  lock,              \* per cached function: the session computing it, or 0
  loads,             \* per cached function: how often its body has run
  indexBuilds,       \* how often the catalog has been encoded
  runs,              \* script runs started
  pc,                \* per session: where its script run stands
  show_menu,         \* st.session_state.show_menu (None before the first run)
  user_query,        \* the text input's value
  selected,          \* app2: the position picked in the select box, if any
  recipe_names,      \* run-local; None until assigned
  model,             \* run-local: the model instance in use
  recipe_embeddings, \* run-local: the vector index
  matched_recipe,    \* run-local (app3)
  all_recipe_names,  \* run-local (app2)
  recipe_name,       \* run-local (app2)
  request,           \* run-local: the recipe_name posted, if any
  response,          \* run-local: what the post brought back
  shown,             \* run-local: the messages displayed, in order
  log                \* run-local: the operations performed, in order

inputs == <<app, csv, weights, sessions>>
process == <<cache, lock, loads>>
widgets == <<show_menu, user_query, selected>>
locals3 == <<recipe_names, model, recipe_embeddings, matched_recipe>>
locals2 == <<all_recipe_names, recipe_name>>
io == <<request, response, shown>>
vars == <<inputs, process, indexBuilds, runs, pc, widgets, locals3, locals2, io, log>>

At(a) == [at |-> a, fn |-> "-"]
Call(a, f) == [at |-> a, fn |-> f]

\* The catalog and encoder used when several sessions run together.
SharedCsvFiles == { rows \in CsvFiles : Len(rows) <= 1 }
SharedWeights == [t \in Texts |-> <<1, 0>>]

Init ==
  /\ \/ /\ app = "app3"
        /\ sessions = {1}
        /\ csv \in CsvFiles
        /\ weights \in Encoders
     \/ /\ app = "app3"
        /\ sessions = Sessions
        /\ csv \in SharedCsvFiles
        /\ weights = SharedWeights
     \/ /\ app = "app2"
        /\ sessions = {1}
        /\ csv = <<>>
        /\ weights = SharedWeights
  /\ cache = [f \in Fns |-> None]
  /\ lock = [f \in Fns |-> 0]
  /\ loads = [f \in Fns |-> 0]
  /\ indexBuilds = 0
  /\ runs = 0
  /\ pc = [s \in Sessions |-> At("new")]
  /\ show_menu = [s \in Sessions |-> None]
  /\ user_query = [s \in Sessions |-> <<>>]
  /\ selected = [s \in Sessions |-> None]
  /\ recipe_names = [s \in Sessions |-> None]
  /\ model = [s \in Sessions |-> None]
  /\ recipe_embeddings = [s \in Sessions |-> None]
  /\ matched_recipe = [s \in Sessions |-> None]
  /\ all_recipe_names = [s \in Sessions |-> None]
  /\ recipe_name = [s \in Sessions |-> None]
  /\ request = [s \in Sessions |-> None]
  /\ response = [s \in Sessions |-> None]
  /\ shown = [s \in Sessions |-> <<>>]
  /\ log = [s \in Sessions |-> <<>>]

\* ------------------------------------------------------------- script start
\* A rerun executes the script from the top in a fresh namespace: nothing
\* of the previous run is kept but the widget and session state.
BeginRun(s) ==
  /\ s \in sessions
  /\ runs < MaxRuns
  /\ runs' = runs + 1
  /\ pc' = [pc EXCEPT ![s] =
              IF app = "app3" THEN Call("call", "load_recipes") ELSE At("fetch")]
  /\ recipe_names' = [recipe_names EXCEPT ![s] = None]
  /\ model' = [model EXCEPT ![s] = None]
  /\ recipe_embeddings' = [recipe_embeddings EXCEPT ![s] = None]
  /\ matched_recipe' = [matched_recipe EXCEPT ![s] = None]
  /\ all_recipe_names' = [all_recipe_names EXCEPT ![s] = None]
  /\ recipe_name' = [recipe_name EXCEPT ![s] = None]
  /\ request' = [request EXCEPT ![s] = None]
  /\ response' = [response EXCEPT ![s] = None]
  /\ shown' = [shown EXCEPT ![s] = <<>>]
  /\ log' = [log EXCEPT ![s] = <<>>]
  /\ UNCHANGED <<inputs, process, indexBuilds>>

\* The first run of a session: show_menu is set to False (app3), the text
\* input is empty, nothing is picked.
InitialLoad(s) ==
  /\ pc[s].at = "new"
  /\ BeginRun(s)
  /\ show_menu' = [show_menu EXCEPT ![s] = IF app = "app3" THEN Some(FALSE) ELSE None]
  /\ UNCHANGED <<user_query, selected>>

\* The menu button is pressed: the rerun flips show_menu.
PressMenu(s) ==
  /\ app = "app3"
  /\ pc[s].at = "done"
  /\ BeginRun(s)
  /\ show_menu' = [show_menu EXCEPT ![s] = Some(~show_menu[s][1])]
  /\ UNCHANGED <<user_query, selected>>

\* The text input is given another value q (possibly the empty text).
SubmitQuery(s, q) ==
  /\ app = "app3"
  /\ pc[s].at = "done"
  /\ q # user_query[s]
  /\ BeginRun(s)
  /\ user_query' = [user_query EXCEPT ![s] = q]
  /\ UNCHANGED <<show_menu, selected>>

\* app2: position k of the select box is picked.
SelectRecipe(s, k) ==
  /\ app = "app2"
  /\ pc[s].at = "done"
  /\ BeginRun(s)
  /\ selected' = [selected EXCEPT ![s] = Some(k)]
  /\ UNCHANGED <<show_menu, user_query>>

\* ------------------------------------------------------------- cached calls
\* @st.cache_data / @st.cache_resource: a call first reads the cache without
\* a lock; on a miss it takes the function's compute lock, reads the cache
\* again, and only when the value is still absent runs the body and stores
\* the result, all under the lock.

\* The name a cache event is logged under.
Ev(kind, f) ==
  CASE kind = "miss" /\ f = "load_recipes" -> "miss_load_recipes"
    [] kind = "miss" /\ f = "load_model" -> "miss_load_model"
    [] kind = "late_hit" /\ f = "load_recipes" -> "late_hit_load_recipes"
    [] kind = "late_hit" /\ f = "load_model" -> "late_hit_load_model"
    [] kind = "body" /\ f = "load_recipes" -> "body_load_recipes"
    [] kind = "body" /\ f = "load_model" -> "body_load_model"

\* A second read that never sees what another session stored meanwhile.
LockedReadStale(c, f) == None

\* The second read of the cache, made while holding the compute lock.
LockedRead(c, f) == c[f]

\* The body of the cached function: load_recipes reads and filters the
\* CSV; load_model constructs a new SentenceTransformer instance, told
\* apart from earlier ones by its number.
Body(f) ==
  IF f = "load_recipes" THEN LoadRecipesBody(csv) ELSE loads["load_model"] + 1

\* The call returns v: df_recipes / recipe_names (lines 101-102) or model
\* (line 103) is assigned and the script goes on.
Return(s, f, v) ==
  /\ pc' = [pc EXCEPT ![s] =
              IF f = "load_recipes" THEN Call("call", "load_model") ELSE At("encode")]
  /\ recipe_names' =
       IF f = "load_recipes" THEN [recipe_names EXCEPT ![s] = Some(ToList(v))]
       ELSE recipe_names
  /\ model' = IF f = "load_model" THEN [model EXCEPT ![s] = Some(v)] ELSE model

CacheHit(s) ==
  /\ s \in sessions
  /\ pc[s].at = "call"
  /\ cache[pc[s].fn] # None
  /\ Return(s, pc[s].fn, cache[pc[s].fn][1])
  /\ UNCHANGED <<inputs, process, indexBuilds, runs, widgets, recipe_embeddings,
                 matched_recipe, locals2, io, log>>

CacheMiss(s) ==
  /\ s \in sessions
  /\ pc[s].at = "call"
  /\ cache[pc[s].fn] = None
  /\ pc' = [pc EXCEPT ![s] = Call("wait", pc[s].fn)]
  /\ log' = [log EXCEPT ![s] = Append(@, Ev("miss", pc[s].fn))]
  /\ UNCHANGED <<inputs, process, indexBuilds, runs, widgets, locals3, locals2, io>>

CacheLock(s) ==
  /\ s \in sessions
  /\ pc[s].at = "wait"
  /\ lock[pc[s].fn] = 0
  /\ lock' = [lock EXCEPT ![pc[s].fn] = s]
  /\ pc' = [pc EXCEPT ![s] = Call("locked", pc[s].fn)]
  /\ UNCHANGED <<inputs, cache, loads, indexBuilds, runs, widgets, locals3,
                 locals2, io, log>>

CacheLateHit(s) ==
  /\ s \in sessions
  /\ pc[s].at = "locked"
  /\ LockedRead(cache, pc[s].fn) # None
  /\ lock' = [lock EXCEPT ![pc[s].fn] = 0]
  /\ Return(s, pc[s].fn, LockedRead(cache, pc[s].fn)[1])
  /\ log' = [log EXCEPT ![s] = Append(@, Ev("late_hit", pc[s].fn))]
  /\ UNCHANGED <<inputs, cache, loads, indexBuilds, runs, widgets,
                 recipe_embeddings, matched_recipe, locals2, io>>

CacheCompute(s) ==
  /\ s \in sessions
  /\ pc[s].at = "locked"
  /\ LockedRead(cache, pc[s].fn) = None
  /\ cache' = [cache EXCEPT ![pc[s].fn] = Some(Body(pc[s].fn))]
  /\ loads' = [loads EXCEPT ![pc[s].fn] = @ + 1]
  /\ lock' = [lock EXCEPT ![pc[s].fn] = 0]
  /\ Return(s, pc[s].fn, Body(pc[s].fn))
  /\ log' = [log EXCEPT ![s] = Append(@, Ev("body", pc[s].fn))]
  /\ UNCHANGED <<inputs, indexBuilds, runs, widgets, recipe_embeddings,
                 matched_recipe, locals2, io>>

\* ------------------------------------------------------------- app3
Uncaught(tx) == Msg("uncaught", 0, tx)

\* Line 104: recipe_embeddings = model.encode(recipe_names, ...), executed
\* by every run.
BuildIndex(s) ==
  /\ s \in sessions
  /\ pc[s].at = "encode"
  /\ recipe_embeddings' =
       [recipe_embeddings EXCEPT ![s] = Some(EncodeMany(weights, recipe_names[s][1]))]
  /\ indexBuilds' = indexBuilds + 1
  /\ log' = [log EXCEPT ![s] = Append(@, "encode_catalog")]
  /\ pc' = [pc EXCEPT ![s] = At("query")]
  /\ UNCHANGED <<inputs, process, runs, widgets, recipe_names, model,
                 matched_recipe, locals2, io>>

\* Line 104 on an empty list: releases of sentence-transformers that stack
\* the embeddings unconditionally raise here (torch.stack of no tensors);
\* later ones return an empty tensor (BuildIndex).  The exception is caught
\* nowhere and ends the run.
BuildIndexRaises(s) ==
  /\ s \in sessions
  /\ pc[s].at = "encode"
  /\ recipe_names[s][1] = <<>>
  /\ indexBuilds' = indexBuilds + 1
  /\ log' = [log EXCEPT ![s] = Append(@, "encode_catalog")]
  /\ shown' = [shown EXCEPT ![s] = Append(@, Uncaught("RuntimeError"))]
  /\ pc' = [pc EXCEPT ![s] = At("done")]
  /\ UNCHANGED <<inputs, process, runs, widgets, locals3, locals2, request, response>>

\* Lines 110, 197-198: an empty text input only shows the prompt.
ShowPrompt(s) ==
  /\ s \in sessions
  /\ pc[s].at = "query"
  /\ ~Truthy(user_query[s])
  /\ shown' = [shown EXCEPT ![s] = Append(@, Msg("info", 0, "enter craving"))]
  /\ pc' = [pc EXCEPT ![s] = At("done")]
  /\ UNCHANGED <<inputs, process, indexBuilds, runs, widgets, locals3, locals2,
                 request, response, log>>

\* Lines 111-115: encode the query, score it against the index, take the
\* first maximal position and look the name up.
Resolve(s) ==
  /\ s \in sessions
  /\ pc[s].at = "query"
  /\ Truthy(user_query[s])
  /\ recipe_embeddings[s][1] # <<>>
  /\ LET query_embedding == weights[user_query[s]]
         scores == CosSim(query_embedding, recipe_embeddings[s][1])
         best_index == ArgMax(scores)
     IN matched_recipe' =
          [matched_recipe EXCEPT ![s] = Some(recipe_names[s][1][best_index])]
  /\ log' = [log EXCEPT ![s] = @ \o <<"encode_query", "cos_sim", "argmax", "lookup">>]
  /\ shown' = [shown EXCEPT ![s] = Append(@, Msg("matched", 0, ""))]
  /\ pc' = [pc EXCEPT ![s] = At("post")]
  /\ UNCHANGED <<inputs, process, indexBuilds, runs, widgets, recipe_names, model,
                 recipe_embeddings, locals2, request, response>>

\* An empty index answered with an empty default name instead of an error.
ResolveDefaults(s) ==
  /\ s \in sessions
  /\ pc[s].at = "query"
  /\ Truthy(user_query[s])
  /\ recipe_embeddings[s][1] = <<>>
  /\ matched_recipe' = [matched_recipe EXCEPT ![s] = Some(<<>>)]
  /\ log' = [log EXCEPT ![s] = @ \o <<"encode_query", "cos_sim">>]
  /\ pc' = [pc EXCEPT ![s] = At("post")]
  /\ UNCHANGED <<inputs, process, indexBuilds, runs, widgets, recipe_names, model,
                 recipe_embeddings, locals2, io>>

\* Lines 111-112 with an empty index: the query is encoded, then
\* pytorch_cos_sim multiplies a 1 x d matrix by a 0 x 1 one and torch raises
\* a RuntimeError, outside any try block.
ResolveRaises(s) ==
  /\ s \in sessions
  /\ pc[s].at = "query"
  /\ Truthy(user_query[s])
  /\ recipe_embeddings[s][1] = <<>>
  /\ log' = [log EXCEPT ![s] = @ \o <<"encode_query", "cos_sim">>]
  /\ shown' = [shown EXCEPT ![s] = Append(@, Uncaught("RuntimeError"))]
  /\ pc' = [pc EXCEPT ![s] = At("done")]
  /\ UNCHANGED <<inputs, process, indexBuilds, runs, widgets, locals3, locals2,
                 request, response>>

\* ------------------------------------------------------------- app2
\* Lines 87-96: the names of the select box come from the API; any failure
\* leaves an empty list and shows an error.
FetchNames(s, g) ==
  /\ s \in sessions
  /\ pc[s].at = "fetch"
  /\ all_recipe_names' =
       [all_recipe_names EXCEPT ![s] =
          Some(IF g.exc = "" /\ g.status = 200 THEN g.recipes ELSE <<>>)]
  /\ shown' = [shown EXCEPT ![s] =
                 IF g.exc # "" THEN Append(@, Msg("fetch_exception", 0, g.exc))
                 ELSE IF g.status # 200 THEN Append(@, Msg("fetch_failed", 0, ""))
                 ELSE @]
  /\ log' = [log EXCEPT ![s] = Append(@, "get")]
  /\ pc' = [pc EXCEPT ![s] = At("select")]
  /\ UNCHANGED <<inputs, process, indexBuilds, runs, widgets, locals3, recipe_name,
                 request, response>>

\* st.selectbox: the picked option, the first one when nothing (valid) is
\* picked, None when there are no options.
SelectBox(options, picked) ==
  IF options = <<>> THEN None
  ELSE IF picked # None /\ picked[1] <= Len(options) THEN Some(options[picked[1]])
  ELSE Some(options[1])

\* Lines 106-109, 188-189.
Select(s) ==
  /\ s \in sessions
  /\ pc[s].at = "select"
  /\ LET name == SelectBox(all_recipe_names[s][1], selected[s])
         go == name # None /\ Truthy(name[1])
     IN /\ recipe_name' = [recipe_name EXCEPT ![s] = name]
        /\ pc' = [pc EXCEPT ![s] = IF go THEN At("post") ELSE At("done")]
        /\ shown' = [shown EXCEPT ![s] =
                       IF go THEN @ ELSE Append(@, Msg("info", 0, "enter recipe"))]
  /\ UNCHANGED <<inputs, process, indexBuilds, runs, widgets, locals3,
                 all_recipe_names, request, response, log>>

\* ------------------------------------------------------------- prediction API
\* The name the run posts: matched_recipe (app3) or recipe_name (app2).
RunName(s) == IF app = "app3" THEN matched_recipe[s][1] ELSE recipe_name[s][1]

\* Whether the post failed: an exception or a status other than 200.
Failed(r) == r.exc # "" \/ r.status # 200

\* A post that is sent again after a failure.
PostRetries(s, r) ==
  /\ s \in sessions
  /\ pc[s].at = "post"
  /\ request' = [request EXCEPT ![s] = Some(Payload(RunName(s)))]
  /\ response' = [response EXCEPT ![s] = Some(r)]
  /\ shown' = [shown EXCEPT ![s] = Append(@, Display(r))]
  /\ log' = [log EXCEPT ![s] = Append(@, "post")]
  /\ pc' = [pc EXCEPT ![s] = IF Failed(r) THEN At("post") ELSE At("done")]
  /\ UNCHANGED <<inputs, process, indexBuilds, runs, widgets, locals3, locals2>>

\* app3 lines 118-196, app2 lines 110-187: one post inside one try block;
\* every branch ends the run.
Post(s, r) ==
  /\ s \in sessions
  /\ pc[s].at = "post"
  /\ request' = [request EXCEPT ![s] = Some(Payload(RunName(s)))]
  /\ response' = [response EXCEPT ![s] = Some(r)]
  /\ shown' = [shown EXCEPT ![s] = Append(@, Display(r))]
  /\ log' = [log EXCEPT ![s] = Append(@, "post")]
  /\ pc' = [pc EXCEPT ![s] = At("done")]
  /\ UNCHANGED <<inputs, process, indexBuilds, runs, widgets, locals3, locals2>>

\* ------------------------------------------------------------- specification
Next ==
  \/ \E s \in Sessions : InitialLoad(s)
  \/ \E s \in Sessions : PressMenu(s)
  \/ \E s \in Sessions : \E q \in Queries \cup {<<>>} : SubmitQuery(s, q)
  \/ \E s \in Sessions : \E k \in 1..MaxRows : SelectRecipe(s, k)
  \/ \E s \in Sessions : CacheHit(s)
  \/ \E s \in Sessions : CacheMiss(s)
  \/ \E s \in Sessions : CacheLock(s)
  \/ \E s \in Sessions : CacheLateHit(s)
  \/ \E s \in Sessions : CacheCompute(s)
  \/ \E s \in Sessions : BuildIndex(s)
  \/ \E s \in Sessions : BuildIndexRaises(s)
  \/ \E s \in Sessions : ShowPrompt(s)
  \/ \E s \in Sessions : Resolve(s)
  \/ \E s \in Sessions : ResolveRaises(s)
  \/ \E s \in Sessions : \E g \in GetResponses : FetchNames(s, g)
  \/ \E s \in Sessions : Select(s)
  \/ \E s \in Sessions : \E r \in Responses : Post(s, r)

Spec == Init /\ [][Next]_vars

\* ------------------------------------------------------------- properties
Range(q) == { q[i] : i \in 1..Len(q) }
Count(q, x) == Cardinality({ i \in 1..Len(q) : q[i] = x })
Names(s) == recipe_names[s][1]
Index(s) == recipe_embeddings[s][1]
\* The position in a log of the first entry x (0 when absent).
FirstAt(q, x) ==
  IF x \in Range(q) THEN CHOOSE i \in 1..Len(q) : q[i] = x /\ \A j \in 1..(i - 1) : q[j] # x
  ELSE 0

\* The scores of the run's query against the run's index.
ScoresOf(s) == CosSim(weights[user_query[s]], Index(s))

\* p is a position of the maximum of scores and no lower position reaches it.
IsFirstMaximum(scores, p) ==
  /\ p \in 1..Len(scores)
  /\ \A j \in 1..Len(scores) : scores[j] <= scores[p]
  /\ \A j \in 1..(p - 1) : scores[j] < scores[p]

\* C1: whenever a non-empty query has been resolved against a non-empty
\* catalog, the matched recipe is catalog[p] for a position p whose score is
\* the maximum over all positions, and p is the lowest position with that
\* score.
C1_FirstMaximum ==
  \A s \in sessions :
    (app = "app3" /\ matched_recipe[s] # None) =>
      \E p \in 1..Len(Names(s)) :
        /\ IsFirstMaximum(ScoresOf(s), p)
        /\ matched_recipe[s][1] = Names(s)[p]

\* C1 witness: a query resolved over three entries where two positions
\* holding different names tie for the maximum, and the name at the lower
\* one is the match.
C1_Witness ==
  \E s \in sessions :
    /\ app = "app3"
    /\ matched_recipe[s] # None
    /\ Len(Names(s)) = 3
    /\ \E i, j \in 1..Len(Names(s)) :
         /\ i < j
         /\ Names(s)[i] # Names(s)[j]
         /\ ScoresOf(s)[i] = ScoresOf(s)[j]
         /\ \A m \in 1..Len(Names(s)) : ScoresOf(s)[m] <= ScoresOf(s)[i]
         /\ \A m \in 1..(i - 1) : ScoresOf(s)[m] < ScoresOf(s)[i]
         /\ matched_recipe[s][1] = Names(s)[i]

\* A run of app3 with a non-empty query over a catalog with no entries.
EmptyCatalogRun(s) ==
  /\ app = "app3"
  /\ recipe_names[s] = Some(<<>>)
  /\ user_query[s] # <<>>

C3_IndexAligned ==
  \A s \in sessions :
    recipe_embeddings[s] # None =>
      /\ Len(Index(s)) = Len(Names(s))
      /\ \A i \in 1..Len(Names(s)) : Index(s)[i] = weights[Names(s)[i]]

\* C3 witness: a run about to read the query whose catalog holds the same
\* name twice and a name with another embedding.
C3_Witness ==
  \E s \in sessions :
    /\ pc[s].at = "query"
    /\ \E i, j, k \in 1..Len(Names(s)) :
         /\ i # j
         /\ Names(s)[i] = Names(s)[j]
         /\ weights[Names(s)[k]] # weights[Names(s)[i]]

\* C4 as stated: over the runs of one process the catalog, which never
\* changes, is encoded into the index once only.
C4_IndexBuiltOnce == indexBuilds <= 1

\* C5: whatever the interleaving of the sessions, the body of load_model
\* runs at most once, and every run that holds a model holds the one
\* instance kept in the cache.
C5_ModelLoadedOnce ==
  /\ loads["load_model"] <= 1
  /\ \A s \in sessions : model[s] # None => model[s] = cache["load_model"]
  /\ \A s, t \in sessions :
       (model[s] # None /\ model[t] # None) => model[s] = model[t]

\* C5 witness: two sessions both missed the cache on their first read; one
\* ran the body and the other, having waited for the lock, took the stored
\* instance.
C5_Witness ==
  \E s, t \in sessions :
    /\ s # t
    /\ "body_load_model" \in Range(log[s])
    /\ "miss_load_model" \in Range(log[t])
    /\ "late_hit_load_model" \in Range(log[t])
    /\ model[s] # None
    /\ model[t] # None

\* The rows of rows that satisfy keep, in order, given position by position:
\* entry k is the row at the k-th kept position.
IsSubsequenceKeeping(names, rows, keep(_)) ==
  LET kept == { i \in 1..Len(rows) : keep(rows[i]) }
      nth(k) == CHOOSE i \in kept : Cardinality({ j \in kept : j <= i }) = k
  IN /\ Len(names) = Cardinality(kept)
     /\ \A k \in 1..Len(names) : names[k] = rows[nth(k)]

\* C6 as stated: the catalog is the subsequence of the rows whose name is
\* not empty (a missing name is an empty field of the file).
C6_DropsOnlyEmpty ==
  \A s \in sessions :
    (app = "app3" /\ recipe_names[s] # None) =>
      IsSubsequenceKeeping(Names(s), csv, LAMBDA f : f # <<>>)

\* C6 amended: the catalog is the subsequence, in row order and with
\* duplicates, of the rows whose name read_csv does not read as missing:
\* the name is neither empty nor one of the default NA markers.
C6_DropsMissing ==
  \A s \in sessions :
    (app = "app3" /\ recipe_names[s] # None) =>
      IsSubsequenceKeeping(Names(s), csv, LAMBDA f : f \notin NAValues)

\* C6 witness: a loaded catalog that keeps the same name twice around a
\* dropped row.
C6_Witness ==
  \E s \in sessions :
    /\ app = "app3"
    /\ recipe_names[s] # None
    /\ Len(csv) = 3
    /\ csv[2] \in NAValues
    /\ csv[1] = csv[3]
    /\ Names(s) = <<csv[1], csv[3]>>

\* The message a failed post must end the run with.
FailureMessage(r) ==
  IF r.exc # "" THEN Msg("exception", 0, r.exc) ELSE Msg("api_error", r.status, r.text)

\* C7: when the post comes back with a status other than 200 or raises, the
\* run is over, its last message gives the status code and body (or the
\* exception text), the run has sent exactly one request, and the step
\* leaves the catalog, the index and the caches as they were.
C7_GatewayFailure ==
  /\ [](\A s \in sessions :
          (response[s] # None /\ Failed(response[s][1])) =>
            /\ pc[s].at = "done"
            /\ shown[s][Len(shown[s])] = FailureMessage(response[s][1])
            /\ Count(log[s], "post") = 1)
  /\ [][\A s \in sessions :
          (response'[s] # None /\ response[s] = None /\ Failed(response'[s][1])) =>
            UNCHANGED <<recipe_names, recipe_embeddings, all_recipe_names, cache>>]_vars

\* C7 witness: a run of app3 over a non-empty index ended by a 500 answer.
C7_Witness ==
  \E s \in sessions :
    /\ app = "app3"
    /\ pc[s].at = "done"
    /\ response[s] # None
    /\ response[s][1].status = 500
    /\ Index(s) # <<>>

\* C8 as stated: every resolution checks the index length against the
\* catalog length, and unequal lengths end in IndexCatalogMismatchError
\* with no recipe name.
C8_LengthChecked ==
  \A s \in sessions :
    "cos_sim" \in Range(log[s]) =>
      /\ "len_check" \in Range(log[s])
      /\ Len(Index(s)) # Len(Names(s)) =>
           /\ matched_recipe[s] = None
           /\ shown[s][Len(shown[s])].text = "IndexCatalogMismatchError"

\* C8 amended: resolution makes no length check and never ends in
\* IndexCatalogMismatchError; whenever a query is scored the index and the
\* catalog of the run have the same length.
C8_LengthsEqualUnchecked ==
  \A s \in sessions :
    "cos_sim" \in Range(log[s]) =>
      /\ Len(Index(s)) = Len(Names(s))
      /\ "len_check" \notin Range(log[s])
      /\ \A i \in 1..Len(shown[s]) : shown[s][i].text # "IndexCatalogMismatchError"

\* C8 witness: a query resolved against a catalog of several names.
C8_Witness ==
  \E s \in sessions :
    /\ "lookup" \in Range(log[s])
    /\ Len(Names(s)) >= 2

UpperCase == {"A", "B", "N"}

\* r is name without its leading and trailing whitespace, every character
\* lowered.
IsTrimmedLowered(r, name) ==
  LET solid == { i \in 1..Len(name) : name[i] \notin Whitespace }
  IN IF solid = {} THEN r = <<>>
     ELSE LET lo == CHOOSE i \in solid : \A j \in solid : i <= j
              hi == CHOOSE i \in solid : \A j \in solid : j <= i
          IN /\ Len(r) = hi - lo + 1
             /\ \A k \in 1..Len(r) :
                  /\ r[k] \notin UpperCase
                  /\ r[k] = LowerChar(name[lo + k - 1])

\* C9: a run that has sent a request has resolved (app3) or selected (app2)
\* a name in that run, and the request carries that name trimmed of
\* whitespace and lowered; a run sends a request only by posting.
C9_PayloadIsTrimmedLowered ==
  \A s \in sessions :
    /\ request[s] # None =>
         /\ IF app = "app3" THEN matched_recipe[s] # None ELSE recipe_name[s] # None
         /\ IsTrimmedLowered(request[s][1], RunName(s))
    /\ "post" \in Range(log[s]) => request[s] # None

\* C9 witness: a request sent for a name with leading whitespace and an
\* upper-case letter.
C9_Witness ==
  \E s \in sessions :
    /\ request[s] # None
    /\ RunName(s) = <<" ", "A">>
    /\ request[s][1] = <<"a">>

QuerySteps == {"encode_query", "cos_sim", "argmax", "lookup"}

\* C10: a run posts at most once; in app3 the post comes only after a
\* non-empty query was encoded and resolved to a catalog entry; a run with
\* an empty query encodes no query, resolves nothing, posts nothing, and
\* once past the text input shows the prompt and nothing else.
C10_OnePostAfterResolve ==
  \A s \in sessions :
    /\ Count(log[s], "post") <= 1
    /\ (app = "app3" /\ "post" \in Range(log[s])) =>
         /\ user_query[s] # <<>>
         /\ 0 < FirstAt(log[s], "encode_query")
         /\ FirstAt(log[s], "encode_query") < FirstAt(log[s], "lookup")
         /\ FirstAt(log[s], "lookup") < FirstAt(log[s], "post")
         /\ matched_recipe[s] # None
         /\ matched_recipe[s][1] \in Range(Names(s))
    /\ (app = "app3" /\ user_query[s] = <<>>) =>
         /\ Range(log[s]) \cap (QuerySteps \cup {"post"}) = {}
         /\ matched_recipe[s] = None
         /\ request[s] = None
         /\ (pc[s].at = "done" /\ recipe_embeddings[s] # None) =>
              shown[s] = <<Msg("info", 0, "enter craving")>>

\* C10 witness: one session's run has resolved its query and posted once,
\* and another session's run with an empty query has ended with the prompt.
C10_Witness ==
  \E s, t \in sessions :
    /\ app = "app3"
    /\ pc[s].at = "done"
    /\ "lookup" \in Range(log[s])
    /\ Count(log[s], "post") = 1
    /\ user_query[t] = <<>>
    /\ pc[t].at = "done"
    /\ recipe_embeddings[t] # None
    /\ Index(t) # <<>>
    /\ shown[t] = <<Msg("info", 0, "enter craving")>>

====
